---- MODULE Spec2Model ----
(***************************************************************************)
(* Model of skillkit: the SkillManager registry / sync-async state machine *)
(* (src/skillkit/core/manager.py, discovery.py) and the ScriptExecutor     *)
(* pipeline (src/skillkit/core/scripts.py).                                *)
(***************************************************************************)
EXTENDS Integers, Sequences, FiniteSets, TLC

(***************************************************************************)
(* Bounds of the model                                                     *)
(***************************************************************************)
\* manifests in one scanned directory
MaxSubdirs == 2
\* manifests in the whole filesystem
MaxManifests == 2
\* components of a candidate script path
MaxPathLen == 3
\* directory levels below and including scripts/ in a skill directory
MaxNest == 3
\* plugin directories, and additional search paths, given to the constructor
MaxSources == 2

(***************************************************************************)
(* Generic helpers                                                         *)
(***************************************************************************)
None == "None"

Range(s) == {s[i] : i \in 1..Len(s)}

RECURSIVE SumLen(_, _)
SumLen(f, S) ==
    IF S = {} THEN 0
    ELSE LET d == CHOOSE x \in S : TRUE IN Len(f[d]) + SumLen(f, S \ {d})

SeqsUpTo(S, n) == UNION {[1..k -> S] : k \in 0..n}

(***************************************************************************)
(* manager.py: constants and InitMode                                      *)
(***************************************************************************)
PRIORITY_PROJECT == 100
PRIORITY_ANTHROPIC == 50
PRIORITY_PLUGIN == 10
PRIORITY_CUSTOM_BASE == 5

UNINITIALIZED == "uninitialized"
SYNC == "sync"
ASYNC == "async"
InitMode == {UNINITIALIZED, SYNC, ASYNC}

(***************************************************************************)
(* The filesystem seen by discovery: every directory holds, in iterdir()   *)
(* order, one entry per subdirectory that has a SKILL.md; the entry is the *)
(* skill name the parser yields for it, or BAD when parsing it raises.     *)
(***************************************************************************)
Dirs == {"proj", "anth", "dflt"}
\* a path that names no directory
Gone == "gone"
\* Path.cwd() / ".claude" / "skills"
DefaultSkillsDir == "dflt"
SkillNames == {"X", "Y"}
BAD == "BAD"
Manifests == SkillNames \cup {BAD}

FileSystems ==
    {f \in [Dirs -> SeqsUpTo(Manifests, MaxSubdirs)] : SumLen(f, Dirs) <= MaxManifests}

\* constructor arguments of SkillManager
Configs ==
    { [project |-> "proj", anthropic |-> "anth", plugins |-> <<>>, additional |-> <<>>],
      [project |-> None,   anthropic |-> "anth", plugins |-> <<>>, additional |-> <<"proj">>],
      [project |-> "proj", anthropic |-> None,   plugins |-> <<"anth">>, additional |-> <<>>],
      [project |-> Gone,   anthropic |-> "anth", plugins |-> <<>>, additional |-> <<>>] }


\* every choice of constructor arguments: each directory given or not,
\* existing or not
SourceConfigs ==
    [project : {None, "proj", Gone}, anthropic : {None, "anth", Gone},
     plugins : SeqsUpTo(Dirs \cup {Gone}, MaxSources),
     additional : SeqsUpTo(Dirs \cup {Gone}, MaxSources)]

VARIABLES
    config,      \* constructor arguments (fixed after construction)
    fs,          \* manifests on disk
    sources,     \* SkillManager.sources
    skills_dir,  \* SkillManager.skills_dir
    init_mode,   \* SkillManager._init_mode
    skills,      \* SkillManager._skills, in insertion order
    lastCall,    \* the last public call: operation, argument, mode before it, outcome
    warnings,    \* skill names of the duplicate warnings logged by the last pass
    scanned,     \* directories scanned by the last pass
    parsed       \* manifests handed to the parser by the last pass, in order

mgrVars == <<config, fs, sources, skills_dir, init_mode, skills, lastCall,
             warnings, scanned, parsed>>

VARIABLES
    vcall,       \* arguments of a _validate_script_path call
    vres         \* its outcome, NotCalled before the call

pathVars == <<vcall, vres>>

VARIABLES
    max_output_size,  \* ScriptExecutor.max_output_size
    pc,               \* position of the execute() call: "idle", "running", "done"
    ecall,            \* arguments of the execute() call and what it finds on disk
    proc,             \* locals of execute() while the subprocess runs
    how,              \* how the subprocess ended: "exit", "timeout", or None
    ran,              \* what _execute_subprocess returned, NoRun before it returns
    eres,             \* outcome of execute(): the error raised or the result returned
    spawned,          \* subprocesses spawned by this invocation
    audit             \* AUDIT log entries emitted by this invocation

execVars == <<max_output_size, pc, ecall, proc, how, ran, eres, spawned, audit>>

VARIABLES
    dcall,       \* a detect_scripts call: the skill directory and max_depth
    dres         \* the list it returned, NotDetected before the call

detVars == <<dcall, dres>>

VARIABLES
    tasks        \* the adiscover() coroutines of the event loop: position and locals

asyVars == <<tasks>>

vars == <<mgrVars, pathVars, execVars, detVars, asyVars>>

(***************************************************************************)
(* SkillManager._build_sources                                             *)
(***************************************************************************)
Exists(d) == d \in Dirs

Source(t, d, p) == [source_type |-> t, directory |-> d, priority |-> p]

RECURSIVE PluginSources(_)
PluginSources(ds) ==
    IF ds = <<>> THEN <<>>
    ELSE (IF Exists(Head(ds)) THEN <<Source("plugin", Head(ds), PRIORITY_PLUGIN)>> ELSE <<>>)
         \o PluginSources(Tail(ds))

RECURSIVE CustomSources(_, _)
CustomSources(ds, i) ==
    IF ds = <<>> THEN <<>>
    ELSE (IF Exists(Head(ds))
          THEN <<Source("custom", Head(ds), PRIORITY_CUSTOM_BASE - i)>> ELSE <<>>)
         \o CustomSources(Tail(ds), i + 1)


\* a descending sort that is not stable: a source goes before its equals
RECURSIVE InsertByPriority_Unstable(_, _)
InsertByPriority_Unstable(s, sorted) ==
    IF sorted = <<>> THEN <<s>>
    ELSE IF Head(sorted).priority <= s.priority THEN <<s>> \o sorted
    ELSE <<Head(sorted)>> \o InsertByPriority_Unstable(s, Tail(sorted))

\* list.sort(key=priority, reverse=True): stable, descending
RECURSIVE InsertByPriority(_, _)
InsertByPriority(s, sorted) ==
    IF sorted = <<>> THEN <<s>>
    ELSE IF Head(sorted).priority < s.priority THEN <<s>> \o sorted
    ELSE <<Head(sorted)>> \o InsertByPriority(s, Tail(sorted))

RECURSIVE SortByPriority(_)
SortByPriority(ss) ==
    IF ss = <<>> THEN <<>>
    ELSE InsertByPriority(ss[Len(ss)], SortByPriority(SubSeq(ss, 1, Len(ss) - 1)))

BuildSources(cfg) ==
    SortByPriority(
        (IF cfg.project # None /\ Exists(cfg.project)
         THEN <<Source("project", cfg.project, PRIORITY_PROJECT)>> ELSE <<>>)
        \o (IF cfg.anthropic # None /\ Exists(cfg.anthropic)
            THEN <<Source("anthropic", cfg.anthropic, PRIORITY_ANTHROPIC)>> ELSE <<>>)
        \o PluginSources(cfg.plugins)
        \o CustomSources(cfg.additional, 0))

\* SkillManager.__init__: the legacy skills_dir attribute
SkillsDirOf(cfg) == IF cfg.project # None THEN cfg.project ELSE DefaultSkillsDir

(***************************************************************************)
(* SkillDiscovery.scan_directory / ascan_directory                         *)
(***************************************************************************)
\* find_skill_files: the manifests of the immediate subdirectories
FindSkillFiles(f, d) == [i \in 1..Len(f[d]) |-> <<d, i>>]

ScanDirectory(f, d) == IF ~Exists(d) THEN <<>> ELSE FindSkillFiles(f, d)


\* an asynchronous scan that returns the manifests in the opposite order
AFindSkillFiles_Reversed(f, d) == [i \in 1..Len(f[d]) |-> <<d, Len(f[d]) + 1 - i>>]

\* afind_skill_files runs the same loop in a worker thread
AFindSkillFiles(f, d) == [i \in 1..Len(f[d]) |-> <<d, i>>]

AScanDirectory(f, d) == IF ~Exists(d) THEN <<>> ELSE AFindSkillFiles(f, d)


\* discover_skills: a plugin source with a manifest is scanned directory by
\* directory in the order of manifest.skills (given here already joined to
\* the plugin root), any other source in its own directory
RECURSIVE ScanManifestDirs(_, _)
ScanManifestDirs(f, ds) ==
    IF ds = <<>> THEN <<>>
    ELSE ScanDirectory(f, Head(ds)) \o ScanManifestDirs(f, Tail(ds))

DiscoverSkills(f, source) ==
    IF source.source_type = "plugin" /\ source.plugin_manifest.present
    THEN ScanManifestDirs(f, source.plugin_manifest.skills)
    ELSE ScanDirectory(f, source.directory)

\* adiscover_skills
RECURSIVE AScanManifestDirs(_, _)
AScanManifestDirs(f, ds) ==
    IF ds = <<>> THEN <<>>
    ELSE AScanDirectory(f, Head(ds)) \o AScanManifestDirs(f, Tail(ds))

ADiscoverSkills(f, source) ==
    IF source.source_type = "plugin" /\ source.plugin_manifest.present
    THEN AScanManifestDirs(f, source.plugin_manifest.skills)
    ELSE AScanDirectory(f, source.directory)

(***************************************************************************)
(* The parse-and-register loop of discover() / adiscover()                 *)
(***************************************************************************)
Metadata(n, file) == [name |-> n, skill_path |-> file]

HasSkill(reg, n) == \E i \in 1..Len(reg) : reg[i].name = n

Lookup(reg, n) == reg[CHOOSE i \in 1..Len(reg) : reg[i].name = n]

\* one iteration: parse, skip on failure, warn and skip on duplicate, else register
RegisterStep(f, acc, file) ==
    LET m == f[file[1]][file[2]] IN
    IF m = BAD THEN acc
    ELSE IF HasSkill(acc.reg, m)
         THEN [acc EXCEPT !.warn = Append(@, m)]
         ELSE [acc EXCEPT !.reg = Append(@, Metadata(m, file))]

\* a loop that gives up at the first manifest the parser rejects
RECURSIVE RegisterAll_StopAtBad(_, _, _)
RegisterAll_StopAtBad(f, acc, files) ==
    IF files = <<>> THEN acc
    ELSE IF f[Head(files)[1]][Head(files)[2]] = BAD THEN acc
    ELSE RegisterAll_StopAtBad(f, RegisterStep(f, acc, Head(files)), Tail(files))

RECURSIVE RegisterAll(_, _, _)
RegisterAll(f, acc, files) ==
    IF files = <<>> THEN acc
    ELSE RegisterAll(f, RegisterStep(f, acc, Head(files)), Tail(files))


\* a pass that starts from the registry the previous pass left
EmptyPass_KeepsRegistry == [reg |-> skills, warn |-> <<>>]

EmptyPass == [reg |-> <<>>, warn |-> <<>>]

\* a public call: operation, argument, mode before it, outcome, and the
\* message of the error it raised (<<>> when none is modelled)
CallRaising(op, arg, pre, out, msg) ==
    [op |-> op, arg |-> arg, pre |-> pre, out |-> out, msg |-> msg]

Call(op, arg, pre, out) == CallRaising(op, arg, pre, out, <<>>)

(***************************************************************************)
(* SkillManager operations                                                 *)
(***************************************************************************)
\* discover() without its check for a manager initialised by adiscover()
Discover_NoModeCheck ==
    LET files == ScanDirectory(fs, skills_dir)
        pass == RegisterAll(fs, EmptyPass, files)
    IN /\ init_mode' = SYNC
       /\ skills' = pass.reg
       /\ warnings' = pass.warn
       /\ scanned' = {skills_dir}
       /\ parsed' = files
       /\ lastCall' = Call("discover", None, init_mode, "ok")
       /\ UNCHANGED <<config, fs, sources, skills_dir>>


\* discover() clearing the registry before it tests the mode
Discover_ClearsFirst ==
    IF init_mode = ASYNC
    THEN /\ lastCall' = Call("discover", None, init_mode, "AsyncStateError")
         /\ skills' = <<>>
         /\ UNCHANGED <<config, fs, sources, skills_dir, init_mode,
                        warnings, scanned, parsed>>
    ELSE Discover_NoModeCheck

Discover ==
    IF init_mode = ASYNC
    THEN /\ lastCall' = Call("discover", None, init_mode, "AsyncStateError")
         /\ UNCHANGED <<config, fs, sources, skills_dir, init_mode, skills,
                        warnings, scanned, parsed>>
    ELSE LET files == ScanDirectory(fs, skills_dir)
             pass == RegisterAll(fs, EmptyPass, files)
         IN /\ init_mode' = SYNC
            /\ skills' = pass.reg
            /\ warnings' = pass.warn
            /\ scanned' = {skills_dir}
            /\ parsed' = files
            /\ lastCall' = Call("discover", None, init_mode, "ok")
            /\ UNCHANGED <<config, fs, sources, skills_dir>>

\* adiscover() testing for the wrong mode
ADiscover_WrongModeCheck ==
    IF init_mode = ASYNC
    THEN /\ lastCall' = Call("adiscover", None, init_mode, "AsyncStateError")
         /\ UNCHANGED <<config, fs, sources, skills_dir, init_mode, skills,
                        warnings, scanned, parsed>>
    ELSE LET files == AScanDirectory(fs, skills_dir)
             pass == RegisterAll(fs, EmptyPass, files)
         IN /\ init_mode' = ASYNC
            /\ skills' = pass.reg
            /\ warnings' = pass.warn
            /\ scanned' = {skills_dir}
            /\ parsed' = files
            /\ lastCall' = Call("adiscover", None, init_mode, "ok")
            /\ UNCHANGED <<config, fs, sources, skills_dir>>

ADiscover ==
    IF init_mode = SYNC
    THEN /\ lastCall' = Call("adiscover", None, init_mode, "AsyncStateError")
         /\ UNCHANGED <<config, fs, sources, skills_dir, init_mode, skills,
                        warnings, scanned, parsed>>
    ELSE LET files == AScanDirectory(fs, skills_dir)
             pass == RegisterAll(fs, EmptyPass, files)
         IN /\ init_mode' = ASYNC
            /\ skills' = pass.reg
            /\ warnings' = pass.warn
            /\ scanned' = {skills_dir}
            /\ parsed' = files
            /\ lastCall' = Call("adiscover", None, init_mode, "ok")
            /\ UNCHANGED <<config, fs, sources, skills_dir>>

ListSkills ==
    /\ lastCall' = Call("list_skills", None, init_mode, "ok")
    /\ UNCHANGED <<config, fs, sources, skills_dir, init_mode, skills,
                   warnings, scanned, parsed>>

\* get_skill: the outcome of the lookup
GetSkillOutcome(reg, n) == IF ~HasSkill(reg, n) THEN "SkillNotFoundError" ELSE "ok"

\* ", ".join(names)
RECURSIVE Join(_)
Join(names) ==
    IF Len(names) <= 1 THEN names
    ELSE <<Head(names), ", ">> \o Join(Tail(names))

\* self._skills.keys(), in insertion order
Keys(reg) == [i \in 1..Len(reg) |-> reg[i].name]

\* a not-found message that lists the registry even when it is empty
NotFoundMessage_NoNone(reg, n) ==
    <<"Skill '", n, "' not found. Available skills: ">> \o Join(Keys(reg))

\* get_skill: the message of its SkillNotFoundError
NotFoundMessage(reg, n) ==
    <<"Skill '", n, "' not found. Available skills: ">>
    \o (IF reg # <<>> THEN Join(Keys(reg)) ELSE <<"none">>)

\* the message of a call that went through get_skill
MessageOf(out, reg, n) == IF out = "SkillNotFoundError" THEN NotFoundMessage(reg, n) ELSE <<>>

GetSkill(n) ==
    /\ lastCall' = CallRaising("get_skill", n, init_mode, GetSkillOutcome(skills, n),
                               MessageOf(GetSkillOutcome(skills, n), skills, n))
    /\ UNCHANGED <<config, fs, sources, skills_dir, init_mode, skills,
                   warnings, scanned, parsed>>

LoadSkill(n) ==
    /\ lastCall' = CallRaising("load_skill", n, init_mode, GetSkillOutcome(skills, n),
                               MessageOf(GetSkillOutcome(skills, n), skills, n))
    /\ UNCHANGED <<config, fs, sources, skills_dir, init_mode, skills,
                   warnings, scanned, parsed>>

\* Skill.invoke / Skill.ainvoke read the manifest named by the metadata
ContentOutcome(f, m) ==
    IF m.skill_path[2] <= Len(f[m.skill_path[1]]) THEN "ok" ELSE "ContentLoadError"

InvokeSkillOutcome(mode, reg, f, n) ==
    IF ~HasSkill(reg, n) THEN "SkillNotFoundError"
    ELSE ContentOutcome(f, Lookup(reg, n))

InvokeSkill(n) ==
    /\ lastCall' = CallRaising("invoke_skill", n, init_mode,
                               InvokeSkillOutcome(init_mode, skills, fs, n),
                               MessageOf(InvokeSkillOutcome(init_mode, skills, fs, n),
                                         skills, n))
    /\ UNCHANGED <<config, fs, sources, skills_dir, init_mode, skills,
                   warnings, scanned, parsed>>

AInvokeSkillOutcome(mode, reg, f, n) ==
    IF mode = SYNC THEN "AsyncStateError"
    ELSE IF mode = UNINITIALIZED THEN "SkillsUseError"
    ELSE IF ~HasSkill(reg, n) THEN "SkillNotFoundError"
    ELSE ContentOutcome(f, Lookup(reg, n))

AInvokeSkill(n) ==
    /\ lastCall' = CallRaising("ainvoke_skill", n, init_mode,
                               AInvokeSkillOutcome(init_mode, skills, fs, n),
                               MessageOf(AInvokeSkillOutcome(init_mode, skills, fs, n),
                                         skills, n))
    /\ UNCHANGED <<config, fs, sources, skills_dir, init_mode, skills,
                   warnings, scanned, parsed>>

(***************************************************************************)
(* The environment: manifests appear and disappear between calls.  Every   *)
(* filesystem of the bounded set is an initial one; between calls a        *)
(* directory that holds no manifest gets its first, and any directory      *)
(* loses its first.                                                        *)
(***************************************************************************)
AddManifest(d, m) ==
    /\ fs[d] = <<>>
    /\ SumLen(fs, Dirs) < MaxManifests
    /\ fs' = [fs EXCEPT ![d] = Append(@, m)]
    /\ UNCHANGED <<config, sources, skills_dir, init_mode, skills, lastCall,
                   warnings, scanned, parsed>>

RemoveManifest(d) ==
    /\ fs[d] # <<>>
    /\ fs' = [fs EXCEPT ![d] = Tail(@)]
    /\ UNCHANGED <<config, sources, skills_dir, init_mode, skills, lastCall,
                   warnings, scanned, parsed>>


(***************************************************************************)
(* Paths.  A name is a sequence of characters, so that str(path) and       *)
(* str.startswith can be computed as the code computes them.  A path is    *)
(* [abs, parts]; canonical paths are written as their parts alone.         *)
(***************************************************************************)
DotDot == <<"..">>
Sep == "/"

nS == <<"s">>
nSE == <<"s", "e">>
nT == <<"t">>
nD == <<"d">>
nA == <<"a", ".py">>
nI == <<"i", ".py">>
nO == <<"o", ".py">>
nL == <<"l">>
nB == <<"b">>
nN == <<"n", ".txt">>
nR == <<"r", ".rb">>
nZ == <<"z">>

AbsPath(parts) == [abs |-> TRUE, parts |-> parts]
RelPath(parts) == [abs |-> FALSE, parts |-> parts]

NoTarget == RelPath(<<>>)
DirNode == [kind |-> "dir", target |-> NoTarget]
FileNode == [kind |-> "file", target |-> NoTarget]
LinkNode(t) == [kind |-> "link", target |-> t]

\* The directory tree the executor runs against.  /s is a skill directory,
\* /se a sibling whose name has "s" as a string prefix, /t a link to /s.
DiskTree ==
       (<<>> :> DirNode)
    @@ (<<nA>> :> FileNode)
    @@ (<<nS>> :> DirNode)
    @@ (<<nS, nA>> :> FileNode)
    @@ (<<nS, nN>> :> FileNode)
    @@ (<<nS, nR>> :> FileNode)
    @@ (<<nS, nD>> :> DirNode)
    @@ (<<nS, nD, nA>> :> FileNode)
    @@ (<<nS, nI>> :> LinkNode(RelPath(<<nA>>)))
    @@ (<<nS, nO>> :> LinkNode(AbsPath(<<nSE, nA>>)))
    @@ (<<nS, nL>> :> LinkNode(RelPath(<<nL>>)))
    @@ (<<nS, nB>> :> LinkNode(RelPath(<<nZ>>)))
    @@ (<<nSE>> :> DirNode)
    @@ (<<nSE, nA>> :> FileNode)
    @@ (<<nT>> :> LinkNode(AbsPath(<<nS>>)))

\* os.getcwd()
Cwd == <<>>

IsLink(p) == p \in DOMAIN DiskTree /\ DiskTree[p].kind = "link"
IsDir(p) == p \in DOMAIN DiskTree /\ DiskTree[p].kind = "dir"

Parent(p) == IF p = <<>> THEN <<>> ELSE SubSeq(p, 1, Len(p) - 1)

\* posixpath.normpath on an absolute path: '..' is collapsed lexically
RECURSIVE NormPath(_, _)
NormPath(done, rest) ==
    IF rest = <<>> THEN done
    ELSE IF Head(rest) = DotDot THEN NormPath(Parent(done), Tail(rest))
    ELSE NormPath(Append(done, Head(rest)), Tail(rest))

\* posixpath._joinrealpath(path, rest, strict=False, seen)
RECURSIVE JoinRealPath(_, _, _)
JoinRealPath(path, rest, seen) ==
    IF rest = <<>> THEN [path |-> path, ok |-> TRUE, seen |-> seen]
    ELSE LET name == Head(rest)
             r == Tail(rest)
             newpath == Append(path, name)
         IN IF name = DotDot THEN JoinRealPath(Parent(path), r, seen)
            ELSE IF ~IsLink(newpath) THEN JoinRealPath(newpath, r, seen)
            ELSE IF newpath \in DOMAIN seen
                 THEN IF seen[newpath].resolved
                      THEN JoinRealPath(seen[newpath].path, r, seen)
                      ELSE [path |-> newpath \o r, ok |-> FALSE, seen |-> seen]
                 ELSE LET tgt == DiskTree[newpath].target
                          sub == JoinRealPath(IF tgt.abs THEN <<>> ELSE path, tgt.parts,
                                     (newpath :> [resolved |-> FALSE, path |-> <<>>]) @@ seen)
                      IN IF ~sub.ok
                         THEN [path |-> sub.path \o r, ok |-> FALSE, seen |-> sub.seen]
                         ELSE JoinRealPath(sub.path, r,
                                  (newpath :> [resolved |-> TRUE, path |-> sub.path]) @@ sub.seen)

\* os.path.realpath(p): never raises in non-strict mode; a symlink loop
\* leaves the rest of the path unresolved, and abspath() then normalises it
RealPath(p) ==
    LET start == IF p.abs THEN <<>> ELSE Cwd
        emptySeen == [x \in {} |-> [resolved |-> FALSE, path |-> <<>>]]
    IN NormPath(<<>>, JoinRealPath(start, p.parts, emptySeen).path)

\* what the kernel does with a path: every component must exist, '..' is
\* the parent of the directory reached, a link loop fails
Fail == <<<<"ENOENT">>>>

RECURSIVE KernelWalk(_, _, _)
KernelWalk(cur, rest, fuel) ==
    IF rest = <<>> THEN cur
    ELSE IF fuel = 0 \/ ~IsDir(cur) THEN Fail
    ELSE LET c == Head(rest)
             np == Append(cur, c)
         IN IF c = DotDot THEN KernelWalk(Parent(cur), Tail(rest), fuel)
            ELSE IF np \notin DOMAIN DiskTree THEN Fail
            ELSE IF DiskTree[np].kind = "link"
                 THEN LET tgt == DiskTree[np].target
                      IN KernelWalk(IF tgt.abs THEN <<>> ELSE cur,
                                    tgt.parts \o Tail(rest), fuel - 1)
                 ELSE KernelWalk(np, Tail(rest), fuel)

MaxFollow == Cardinality(DOMAIN DiskTree)

\* Path.is_symlink(): lstat of the last component
IsSymlink(parts) ==
    /\ parts # <<>>
    /\ parts[Len(parts)] # DotDot
    /\ LET dir == KernelWalk(<<>>, Parent(parts), MaxFollow)
       IN dir # Fail /\ IsDir(dir) /\ IsLink(Append(dir, parts[Len(parts)]))

\* Path.is_file(): stat follows links
IsFile(parts) ==
    LET n == KernelWalk(<<>>, parts, MaxFollow)
    IN n # Fail /\ n \in DOMAIN DiskTree /\ DiskTree[n].kind = "file"

\* str(Path): the characters of an absolute path
RECURSIVE Str(_)
Str(parts) ==
    IF parts = <<>> THEN <<Sep>>
    ELSE IF Len(parts) = 1 THEN <<Sep>> \o parts[1]
    ELSE Str(Parent(parts)) \o <<Sep>> \o parts[Len(parts)]

StartsWith(s, prefix) ==
    Len(prefix) <= Len(s) /\ SubSeq(s, 1, Len(prefix)) = prefix

\* os.path.commonpath of two absolute paths: the longest common run of components
RECURSIVE CommonPath(_, _)
CommonPath(p, q) ==
    IF p = <<>> \/ q = <<>> \/ Head(p) # Head(q) THEN <<>>
    ELSE <<Head(p)>> \o CommonPath(Tail(p), Tail(q))

(***************************************************************************)
(* ScriptExecutor._validate_script_path                                    *)
(***************************************************************************)
Raised(e) == [err |-> e, path |-> <<>>]
Returned(p) == [err |-> None, path |-> p]

\* the containment test done by naive string prefixing only
ValidateScriptPath_StringPrefix(script_path, skill_base_dir) ==
    LET base == RealPath(skill_base_dir)
        sp == IF ~script_path.abs THEN base \o script_path.parts ELSE script_path.parts
        resolved_path == RealPath(AbsPath(sp))
    IN IF ~StartsWith(Str(resolved_path), Str(base)) THEN Raised("PathSecurityError")
       ELSE IF ~IsFile(resolved_path) THEN Raised("FileNotFoundError")
       ELSE Returned(resolved_path)

ValidateScriptPath(script_path, skill_base_dir) ==
    LET base == RealPath(skill_base_dir)
        sp == IF ~script_path.abs THEN base \o script_path.parts ELSE script_path.parts
        is_symlink == IsSymlink(sp)
        resolved_path == RealPath(AbsPath(sp))
        common == CommonPath(base, resolved_path)
    IN IF common # base THEN Raised("PathSecurityError")
       ELSE IF ~StartsWith(Str(resolved_path), Str(base) \o <<Sep>>)
            THEN Raised("PathSecurityError")
       ELSE IF is_symlink /\ ~StartsWith(Str(resolved_path), Str(base))
            THEN Raised("PathSecurityError")
       ELSE IF ~IsFile(resolved_path) THEN Raised("FileNotFoundError")
       ELSE Returned(resolved_path)

\* inputs of the path validation
PathComps == {nS, nSE, nT, nD, nA, nI, nO, nL, nB, nN, nR, DotDot}
ScriptPaths == {[abs |-> a, parts |-> ps] : a \in BOOLEAN, ps \in SeqsUpTo(PathComps, MaxPathLen)}
BaseDirs == {AbsPath(<<nS>>), AbsPath(<<nT>>), RelPath(<<nS>>), AbsPath(<<>>), AbsPath(<<nSE>>)}

NotCalled == [err |-> "NotCalled", path |-> <<>>]

ValidateCall ==
    /\ vres = NotCalled
    /\ vres' = ValidateScriptPath(vcall.script_path, vcall.skill_base_dir)
    /\ UNCHANGED <<mgrVars, execVars, detVars, asyVars, vcall>>

(***************************************************************************)
(* Text: a string is a sequence of characters; its UTF-8 encoding is a     *)
(* sequence of bytes <<character, index>>.                                 *)
(***************************************************************************)
Replacement == "U+FFFD"

Width(c) == IF c = "e'" THEN 2 ELSE IF c = Replacement THEN 3 ELSE 1

RECURSIVE Encode(_)
Encode(s) ==
    IF s = <<>> THEN <<>>
    ELSE [k \in 1..Width(Head(s)) |-> <<Head(s), k>>] \o Encode(Tail(s))

\* bytes.decode('utf-8', errors=...) of a prefix of an encoding: a character
\* cut in the middle is dropped ('ignore') or becomes U+FFFD ('replace')
RECURSIVE Decode(_, _)
Decode(bs, errors) ==
    IF bs = <<>> THEN <<>>
    ELSE LET c == Head(bs)[1]
             w == Width(c)
         IN IF Len(bs) >= w
            THEN <<c>> \o Decode(SubSeq(bs, w + 1, Len(bs)), errors)
            ELSE IF errors = "replace" THEN <<Replacement>> ELSE <<>>

\* sub in s
Contains(s, sub) ==
    \E i \in 0..(Len(s) - Len(sub)) : SubSeq(s, i + 1, i + Len(sub)) = sub

TimeoutWord == <<"T", "i", "m", "e", "o", "u", "t">>
TimeoutSuffix == <<"\n">> \o TimeoutWord
StdoutMarker == <<"\n", "[... OUTPUT TRUNCATED: exceeded 10MB limit ...]">>
StderrMarker == <<"\n", "[... STDERR TRUNCATED: exceeded 10MB limit ...]">>

(***************************************************************************)
(* ScriptExecutionResult and its derived properties                        *)
(***************************************************************************)
Result(out, err, rc, path, sig, signum, ot, et) ==
    [stdout |-> out, stderr |-> err, exit_code |-> rc, script_path |-> path,
     signal |-> sig, signal_number |-> signum,
     stdout_truncated |-> ot, stderr_truncated |-> et]

NoResult == Result(<<>>, <<>>, 0, <<>>, None, None, FALSE, FALSE)


\* success taken as "did not die from a signal"
Success_NonNegative(r) == r.exit_code >= 0

Success(r) == r.exit_code = 0
TimeoutProp(r) == r.exit_code = 124 /\ Contains(r.stderr, TimeoutWord)
Signaled(r) == r.signal # None

(***************************************************************************)
(* ScriptExecutor: the stages of execute()                                 *)
(***************************************************************************)
INTERPRETER_MAP ==
       (".py" :> "python3") @@ (".sh" :> "bash") @@ (".js" :> "node")
    @@ (".rb" :> "ruby") @@ (".pl" :> "perl") @@ (".bat" :> "cmd")
    @@ (".cmd" :> "cmd") @@ (".ps1" :> "powershell")

\* the interpreters shutil.which() finds
Installed == {"python3", "bash"}

\* Path.suffix of the last component
Suffix(parts) ==
    LET name == parts[Len(parts)]
    IN IF Len(name) >= 2 /\ name[Len(name)] \in {".py", ".rb", ".txt"}
       THEN name[Len(name)] ELSE ""

\* a permission check that looks at the setuid bit alone
CheckPermissions_SetuidOnly(os_name, mode) ==
    IF os_name = "nt" THEN None
    ELSE IF "S_ISUID" \in mode THEN "ScriptPermissionError" ELSE None

\* _check_permissions
CheckPermissions(os_name, mode) ==
    IF os_name = "nt" THEN None
    ELSE LET has_setuid == "S_ISUID" \in mode
             has_setgid == "S_ISGID" \in mode
         IN IF has_setuid \/ has_setgid THEN "ScriptPermissionError" ELSE None

\* _resolve_interpreter
ResolveInterpreter(script_path) ==
    LET ext == Suffix(script_path)
    IN IF ext \notin DOMAIN INTERPRETER_MAP
       THEN [err |-> "InterpreterNotFoundError", interpreter |-> None]
       ELSE IF INTERPRETER_MAP[ext] \notin Installed
            THEN [err |-> "InterpreterNotFoundError", interpreter |-> None]
            ELSE [err |-> None, interpreter |-> INTERPRETER_MAP[ext]]

\* _serialize_arguments.  Arguments are given by what json.dumps does with
\* them ("ok" or the exception it raises), by whether the dumped text encodes
\* to UTF-8 (a lone surrogate does not), by the byte length of their compact
\* serialization and by the number of item and key separators in it.
ARGUMENT_SIZE_CAP == 10000000

\* len(json.dumps(arguments, ensure_ascii=False, indent=None).encode('utf-8')):
\* the default separators ", " and ": " each carry a space the compact form lacks
SerializedSize(arguments) == arguments.compact + arguments.separators

SerializeArguments(arguments) ==
    IF arguments.dumps \in {"TypeError", "ValueError"} THEN "ArgumentSerializationError"
    ELSE IF arguments.dumps # "ok" THEN arguments.dumps
    ELSE IF ~arguments.encodable THEN "UnicodeEncodeError"
    ELSE IF SerializedSize(arguments) > ARGUMENT_SIZE_CAP THEN "ArgumentSizeError"
    ELSE None

\* PurePath.relative_to(other): other's parts must be a prefix of the path's
RelativeToOk(parts, other) ==
    /\ other.abs
    /\ Len(other.parts) <= Len(parts)
    /\ SubSeq(parts, 1, Len(other.parts)) = other.parts

\* the stages of execute() before the subprocess is spawned, in the order
\* the code runs them; the first failing stage raises
PreSpawn(c) ==
    LET v == ValidateScriptPath(c.script_path, c.skill_base_dir)
        perm == CheckPermissions(c.os_name, c.mode)
        interp == ResolveInterpreter(v.path)
        ser == SerializeArguments(c.arguments)
    IN IF v.err # None THEN [err |-> v.err, validated_path |-> <<>>, interpreter |-> None]
       ELSE IF perm # None THEN [err |-> perm, validated_path |-> <<>>, interpreter |-> None]
       ELSE IF interp.err # None
            THEN [err |-> interp.err, validated_path |-> <<>>, interpreter |-> None]
       ELSE IF ser # None THEN [err |-> ser, validated_path |-> <<>>, interpreter |-> None]
       ELSE [err |-> None, validated_path |-> v.path, interpreter |-> interp.interpreter]

\* signal.Signals(n).name
SignalNames == (9 :> "SIGKILL") @@ (11 :> "SIGSEGV") @@ (15 :> "SIGTERM")

\* _execute_subprocess, normal completion: (exit_code, stdout, stderr, signal, number)
Completed(rc, out, err) ==
    LET signal_number == IF rc < 0 THEN 0 - rc ELSE None
        signal_name == IF rc < 0
                       THEN IF signal_number \in DOMAIN SignalNames
                            THEN SignalNames[signal_number]
                            ELSE "UNKNOWN_SIGNAL_" \o ToString(signal_number)
                       ELSE None
    IN [exit_code |-> rc, stdout |-> out, stderr |-> err,
        signal_name |-> signal_name, signal_number |-> signal_number]

\* _execute_subprocess, TimeoutExpired: the partial output is bytes (or None)
TimedOut(outBytes, errBytes) ==
    [exit_code |-> 124,
     stdout |-> Decode(outBytes, "replace"),
     stderr |-> Decode(errBytes, "replace") \o TimeoutSuffix,
     signal_name |-> None, signal_number |-> None]

\* truncation that also cuts a stream exactly at the cap
Truncate_AtCap(stream, cap, marker) ==
    IF Len(Encode(stream)) >= cap
    THEN [text |-> Decode(SubSeq(Encode(stream), 1, cap), "ignore") \o marker,
          truncated |-> TRUE]
    ELSE [text |-> stream, truncated |-> FALSE]

\* _handle_output_truncation, one stream
Truncate(stream, cap, marker) ==
    IF Len(Encode(stream)) > cap
    THEN [text |-> Decode(SubSeq(Encode(stream), 1, cap), "ignore") \o marker,
          truncated |-> TRUE]
    ELSE [text |-> stream, truncated |-> FALSE]

HandleOutputTruncation(stdout, stderr, cap) ==
    [out |-> Truncate(stdout, cap, StdoutMarker),
     err |-> Truncate(stderr, cap, StderrMarker)]


\* a signal detection that reports the return code in place of the number
DetectSignal_ReturnCode(signal_name, signal_number) ==
    IF signal_name # None THEN <<signal_name, 0 - signal_number>> ELSE <<None, None>>

\* _detect_signal
DetectSignal(signal_name, signal_number) ==
    IF signal_name # None THEN <<signal_name, signal_number>> ELSE <<None, None>>

\* execute() after _execute_subprocess returned r: truncation, signal, the
\* audit entry (whose relative_to() may raise), the result
Finish(r, c, validated_path, cap) ==
    LET t == HandleOutputTruncation(r.stdout, r.stderr, cap)
        sig == DetectSignal(r.signal_name, r.signal_number)
    IN IF ~RelativeToOk(validated_path, c.skill_base_dir)
       THEN [raised |-> "ValueError", result |-> NoResult, audit |-> 0]
       ELSE [raised |-> None,
             result |-> Result(t.out.text, t.err.text, r.exit_code, validated_path,
                               sig[1], sig[2], t.out.truncated, t.err.truncated),
             audit |-> 1]

(***************************************************************************)
(* Inputs of execute()                                                     *)
(***************************************************************************)
ExecScriptPaths ==
    {RelPath(ps) : ps \in SeqsUpTo(PathComps \ {nS, nSE, nT}, 1)}
    \cup {AbsPath(<<nS, nA>>), RelPath(<<nD, nA>>), RelPath(<<DotDot, nN>>),
          RelPath(<<nL, DotDot, nO>>)}
ExecBaseDirs == {AbsPath(<<nS>>), AbsPath(<<nT>>), RelPath(<<nS>>)}
AllowedTools == {<<>>, <<"Read">>, <<"Read", "Bash">>}
Args(dumps, encodable, compact, separators) ==
    [dumps |-> dumps, encodable |-> encodable, compact |-> compact,
     separators |-> separators]
Arguments ==
    {Args("ok", TRUE, 2, 0),
     Args("ok", TRUE, ARGUMENT_SIZE_CAP - 1, 1),
     Args("ok", TRUE, ARGUMENT_SIZE_CAP, 1),
     Args("ok", TRUE, ARGUMENT_SIZE_CAP + 1, 1),
     Args("ok", FALSE, 9, 1),
     Args("TypeError", TRUE, 0, 0),
     Args("ValueError", TRUE, 0, 0),
     Args("RecursionError", TRUE, 0, 0)}
Modes == SUBSET {"S_ISUID", "S_ISGID"}
OsNames == {"posix", "nt"}
ExitCodes == {0, 1, 124, -9, -99}
Streams == {<<>>, <<"x">>, <<"x", "e'", "x">>, TimeoutWord}
PartialStreams == {Encode(st) : st \in Streams} \cup {<<<<"e'", 1>>>>}
OutputCaps == {2, 8, 64}

ExecCalls ==
    [script_path : ExecScriptPaths, skill_base_dir : ExecBaseDirs,
     allowed_tools : AllowedTools, arguments : Arguments,
     os_name : OsNames, mode : Modes]

NoCall ==
    [script_path |-> RelPath(<<>>), skill_base_dir |-> AbsPath(<<nS>>),
     allowed_tools |-> <<>>, arguments |-> Args("ok", TRUE, 2, 0),
     os_name |-> "posix", mode |-> {}]
NoProc == [validated_path |-> <<>>, interpreter |-> None]
NoOutcome == [raised |-> None, result |-> NoResult]
NoRun == [exit_code |-> 0, stdout |-> <<>>, stderr |-> <<>>,
          signal_name |-> None, signal_number |-> None]

(***************************************************************************)
(* ScriptExecutor.execute                                                  *)
(***************************************************************************)
\* the call, up to the point where subprocess.run() blocks
ExecuteCall(c) ==
    /\ pc = "idle"
    /\ ecall' = c
    /\ \E pre \in {PreSpawn(c)} :
          IF pre.err # None
          THEN /\ pc' = "done"
               /\ eres' = [raised |-> pre.err, result |-> NoResult]
               /\ UNCHANGED <<proc, spawned>>
          ELSE /\ pc' = "running"
               /\ proc' = [validated_path |-> pre.validated_path,
                           interpreter |-> pre.interpreter]
               /\ spawned' = spawned + 1
               /\ UNCHANGED eres
    /\ UNCHANGED <<max_output_size, how, ran, audit>>
    /\ UNCHANGED <<mgrVars, pathVars, detVars, asyVars>>

\* the subprocess ends within the timeout; execute() runs to its end
ProcessExits(rc, out, err) ==
    /\ pc = "running"
    /\ ran' = Completed(rc, out, err)
    /\ \E f \in {Finish(Completed(rc, out, err), ecall, proc.validated_path,
                          max_output_size)} :
          /\ eres' = [raised |-> f.raised, result |-> f.result]
          /\ audit' = audit + f.audit
    /\ how' = "exit"
    /\ pc' = "done"
    /\ UNCHANGED <<max_output_size, ecall, proc, spawned>>
    /\ UNCHANGED <<mgrVars, pathVars, detVars, asyVars>>

\* the timeout expires first; execute() runs to its end
ProcessTimesOut(outBytes, errBytes) ==
    /\ pc = "running"
    /\ ran' = TimedOut(outBytes, errBytes)
    /\ \E f \in {Finish(TimedOut(outBytes, errBytes), ecall, proc.validated_path,
                          max_output_size)} :
          /\ eres' = [raised |-> f.raised, result |-> f.result]
          /\ audit' = audit + f.audit
    /\ how' = "timeout"
    /\ pc' = "done"
    /\ UNCHANGED <<max_output_size, ecall, proc, spawned>>
    /\ UNCHANGED <<mgrVars, pathVars, detVars, asyVars>>

\* the subprocess writes bytes that are not UTF-8 and exits within the
\* timeout: subprocess.run(text=True) decodes strictly and raises
\* UnicodeDecodeError, which neither _execute_subprocess nor execute() catches
ProcessWritesUndecodable ==
    /\ pc = "running"
    /\ eres' = [raised |-> "UnicodeDecodeError", result |-> NoResult]
    /\ how' = "exit"
    /\ pc' = "done"
    /\ UNCHANGED <<max_output_size, ecall, proc, ran, spawned, audit>>
    /\ UNCHANGED <<mgrVars, pathVars, detVars, asyVars>>

\* the caller takes the outcome; the executor keeps no state between calls
ExecuteReturn ==
    /\ pc = "done"
    /\ pc' = "idle"
    /\ ecall' = NoCall
    /\ proc' = NoProc
    /\ how' = None
    /\ ran' = NoRun
    /\ eres' = NoOutcome
    /\ spawned' = 0
    /\ audit' = 0
    /\ UNCHANGED max_output_size
    /\ UNCHANGED <<mgrVars, pathVars, detVars, asyVars>>

(***************************************************************************)
(* ScriptDetector.  A skill directory is given by the files of its root    *)
(* and by the chain of directories under scripts/: levels[1] is scripts/   *)
(* itself, levels[k + 1] the directory entered through the one directory   *)
(* entry of levels[k].  A name is a sequence of characters, its last       *)
(* element the extension.                                                  *)
(***************************************************************************)
nScripts == <<"scripts">>
nRun == <<"run", ".py">>
nHidden == <<".", "hid", ".py">>
nLinked == <<"ln", ".py">>
nDoc == <<"doc", ".txt">>
nSkillMd == <<"SKILL", ".md">>
nSub == <<"sub">>
nLnk == <<"lnk">>
nVenv == <<"venv">>

Item(name, kind, symlink) == [name |-> name, kind |-> kind, symlink |-> symlink]

\* the files a directory may hold
FileItems ==
    {Item(nRun, "file", FALSE), Item(nHidden, "file", FALSE),
     Item(nLinked, "file", TRUE), Item(nDoc, "file", FALSE)}

\* the directory entry of a level: a directory, a link to one, an excluded one
SubItems ==
    {Item(nSub, "dir", FALSE), Item(nLnk, "dir", TRUE), Item(nVenv, "dir", FALSE)}

FileSets ==
    {{}, {nRun}, {nRun, nHidden, nLinked}, {nHidden, nLinked, nDoc}}

Levels == [files : FileSets, sub : SubItems]

\* a skill directory: the files of its root, the levels below scripts/ (none:
\* there is no scripts/), and whether scripts/ is itself a link to a directory
SkillTrees ==
    [root : {{}, {nRun}, {nRun, nLinked}}, levels : SeqsUpTo(Levels, MaxNest),
     scripts_link : BOOLEAN]

\* iterdir(): a set of files in a fixed order
RECURSIVE FilesInOrder(_)
FilesInOrder(names) ==
    IF names = {} THEN <<>>
    ELSE LET it == CHOOSE i \in FileItems :
                      i.name \in names /\ \A j \in FileItems :
                          j.name \in names => Len(i.name) <= Len(j.name)
         IN <<it>> \o FilesInOrder(names \ {it.name})

\* iterdir() of the directory at level k; past the last level it is empty
ItemsOf(levels, k) ==
    IF k > Len(levels) THEN <<>>
    ELSE FilesInOrder(levels[k].files) \o <<levels[k].sub>>

\* the path, relative to the skill directory, of an entry of level k
PathAt(levels, k, name) ==
    <<nScripts>> \o [j \in 1..(k - 1) |-> levels[j].sub.name] \o <<name>>

\* _is_executable_script
IsExecutableScript(item) ==
    IF item.kind # "file" THEN FALSE
    ELSE IF item.symlink THEN FALSE
    ELSE Suffix(<<item.name>>) \in DOMAIN INTERPRETER_MAP

ExcludedNames == {<<"__pycache__">>, <<"node_modules">>, <<".", "venv">>, nVenv}

RECURSIVE ScanDirectories_DepthInclusive(_, _, _, _)
RECURSIVE ScanDirectories(_, _, _, _)
RECURSIVE ScanItems(_, _, _, _, _)
\* the loop of _scan_directories over the entries of the directory at level k
ScanItems(items, levels, k, depth, max_depth) ==
    IF items = <<>> THEN <<>>
    ELSE LET item == Head(items)
             rest == ScanItems(Tail(items), levels, k, depth, max_depth)
         IN IF item.name[1] = "." THEN rest
            ELSE IF item.name \in ExcludedNames THEN rest
            ELSE IF item.kind = "dir" /\ ~item.symlink
                 THEN ScanDirectories(levels, k + 1, depth + 1, max_depth) \o rest
            ELSE IF IsExecutableScript(item)
                 THEN <<PathAt(levels, k, item.name)>> \o rest
            ELSE rest

\* a scan that still reads the directory at depth max_depth
ScanDirectories_DepthInclusive(levels, k, depth, max_depth) ==
    IF depth > max_depth THEN <<>>
    ELSE ScanItems(ItemsOf(levels, k), levels, k, depth, max_depth)

\* _scan_directories
ScanDirectories(levels, k, depth, max_depth) ==
    IF depth >= max_depth THEN <<>>
    ELSE ScanItems(ItemsOf(levels, k), levels, k, depth, max_depth)

\* iterdir() of the skill directory
RootItems(tree) ==
    FilesInOrder(tree.root) \o <<Item(nSkillMd, "file", FALSE)>>
    \o (IF tree.levels # <<>> THEN <<Item(nScripts, "dir", tree.scripts_link)>> ELSE <<>>)

\* _scan_root_directory
RECURSIVE ScanRootItems(_)
ScanRootItems(items) ==
    IF items = <<>> THEN <<>>
    ELSE LET item == Head(items)
             rest == ScanRootItems(Tail(items))
         IN IF item.name[1] = "." THEN rest
            ELSE IF item.kind = "dir" THEN rest
            ELSE IF item.name = nSkillMd \/ Suffix(<<item.name>>) \in {".md", ".txt", ".json"}
                 THEN rest
            ELSE IF IsExecutableScript(item) THEN <<<<item.name>>>> \o rest
            ELSE rest

ScanRootDirectory(tree) == ScanRootItems(RootItems(tree))

\* detect_scripts: scripts/ is scanned when exists() and is_dir() hold, which
\* they do for a link to a directory as well
DetectScripts(tree, max_depth) ==
    (IF tree.levels # <<>> THEN ScanDirectories(tree.levels, 1, 0, max_depth) ELSE <<>>)
    \o ScanRootDirectory(tree)

NotDetected == <<<<<<"not called">>>>>>

MaxDepths == 0..(MaxNest + 1)

DetectCall ==
    /\ dres = NotDetected
    /\ dres' = DetectScripts(dcall.tree, dcall.max_depth)
    /\ UNCHANGED <<mgrVars, pathVars, execVars, dcall, asyVars>>

DetectIdle ==
    /\ dcall = [tree |-> [root |-> {}, levels |-> <<>>, scripts_link |-> FALSE],
               max_depth |-> 0]
    /\ dres = NotDetected


(***************************************************************************)
(* adiscover() as a coroutine.  It runs without interruption up to its one *)
(* await, the scan of the skills directory in a worker thread, and from    *)
(* the scan's result to its end; other coroutines of the event loop run    *)
(* while it waits.                                                         *)
(***************************************************************************)
Tasks == {1, 2}

Task(at, pre, overlapped) == [at |-> at, pre |-> pre, overlapped |-> overlapped]

NotStarted == Task("idle", UNINITIALIZED, FALSE)

AsyncIdle == tasks = [t \in Tasks |-> NotStarted]

\* adiscover() from the call to the await: the mode test, the assignment of
\* the mode, the clearing of the registry
ADiscoverBegin(t) ==
    /\ tasks[t].at = "idle"
    /\ IF init_mode = SYNC
       THEN /\ tasks' = [tasks EXCEPT ![t] = Task("done", init_mode, FALSE)]
            /\ lastCall' = Call("adiscover", None, init_mode, "AsyncStateError")
            /\ UNCHANGED <<init_mode, skills>>
       ELSE /\ init_mode' = ASYNC
            /\ skills' = <<>>
            /\ \E waiting \in {{u \in Tasks : tasks[u].at = "awaiting"}} :
                  tasks' = [u \in Tasks |->
                               IF u = t THEN Task("awaiting", init_mode, waiting # {})
                               ELSE IF u \in waiting
                                    THEN [tasks[u] EXCEPT !.overlapped = TRUE]
                                    ELSE tasks[u]]
            /\ UNCHANGED lastCall
    /\ UNCHANGED <<config, fs, sources, skills_dir, warnings, scanned, parsed>>
    /\ UNCHANGED <<pathVars, execVars, detVars>>

\* adiscover() from the result of the scan to its return: the
\* parse-and-register loop over the registry as it is now
ADiscoverResume(t) ==
    /\ tasks[t].at = "awaiting"
    /\ \E files \in {AScanDirectory(fs, skills_dir)} :
          \E pass \in {RegisterAll(fs, [reg |-> skills, warn |-> <<>>], files)} :
             /\ skills' = pass.reg
             /\ warnings' = warnings \o pass.warn
             /\ scanned' = {skills_dir}
             /\ parsed' = files
    /\ tasks' = [tasks EXCEPT ![t].at = "done"]
    /\ lastCall' = Call("adiscover", None, tasks[t].pre, "ok")
    /\ UNCHANGED <<config, fs, sources, skills_dir, init_mode>>
    /\ UNCHANGED <<pathVars, execVars, detVars>>

(***************************************************************************)
(* Specification of the manager                                            *)
(***************************************************************************)
PathIdle ==
    /\ vcall = [script_path |-> RelPath(<<>>), skill_base_dir |-> AbsPath(<<nS>>)]
    /\ vres = NotCalled

ExecIdle ==
    /\ pc = "idle"
    /\ ecall = NoCall
    /\ proc = NoProc
    /\ how = None
    /\ ran = NoRun
    /\ eres = NoOutcome
    /\ spawned = 0
    /\ audit = 0

Init ==
    /\ PathIdle
    /\ ExecIdle
    /\ DetectIdle
    /\ AsyncIdle
    /\ max_output_size = 64
    /\ config \in Configs
    /\ fs \in FileSystems
    /\ sources = BuildSources(config)
    /\ skills_dir = SkillsDirOf(config)
    /\ init_mode = UNINITIALIZED
    /\ skills = <<>>
    /\ lastCall = Call("__init__", None, UNINITIALIZED, "ok")
    /\ warnings = <<>>
    /\ scanned = {}
    /\ parsed = <<>>

Next ==
    \/ Discover /\ UNCHANGED <<pathVars, execVars, detVars, asyVars>>
    \/ ADiscover /\ UNCHANGED <<pathVars, execVars, detVars, asyVars>>
    \/ ListSkills /\ UNCHANGED <<pathVars, execVars, detVars, asyVars>>
    \/ \E n \in SkillNames : GetSkill(n) /\ UNCHANGED <<pathVars, execVars, detVars, asyVars>>
    \/ \E n \in SkillNames : LoadSkill(n) /\ UNCHANGED <<pathVars, execVars, detVars, asyVars>>
    \/ \E n \in SkillNames : InvokeSkill(n) /\ UNCHANGED <<pathVars, execVars, detVars, asyVars>>
    \/ \E n \in SkillNames : AInvokeSkill(n) /\ UNCHANGED <<pathVars, execVars, detVars, asyVars>>
    \/ \E d \in Dirs, m \in Manifests : AddManifest(d, m) /\ UNCHANGED <<pathVars, execVars, detVars, asyVars>>
    \/ \E d \in Dirs : RemoveManifest(d) /\ UNCHANGED <<pathVars, execVars, detVars, asyVars>>

Spec == Init /\ [][Next]_vars

(***************************************************************************)
(* Specification of the path validation: every candidate path and base     *)
(* directory of the bounded sets, validated once                           *)
(***************************************************************************)
MgrIdle ==
    /\ config = CHOOSE c \in Configs : c.additional = <<>> /\ c.plugins = <<>>
    /\ fs = [d \in Dirs |-> <<>>]
    /\ sources = BuildSources(config)
    /\ skills_dir = SkillsDirOf(config)
    /\ init_mode = UNINITIALIZED
    /\ skills = <<>>
    /\ lastCall = Call("__init__", None, UNINITIALIZED, "ok")
    /\ warnings = <<>>
    /\ scanned = {}
    /\ parsed = <<>>

InitPath ==
    /\ MgrIdle
    /\ ExecIdle
    /\ DetectIdle
    /\ AsyncIdle
    /\ max_output_size = 64
    /\ vcall \in [script_path : ScriptPaths, skill_base_dir : BaseDirs]
    /\ vres = NotCalled

NextPath == ValidateCall

SpecPath == InitPath /\ [][NextPath]_vars

(***************************************************************************)
(* Specification of the executor: one ScriptExecutor, any sequence of      *)
(* execute() calls, each subprocess ending by exit or by timeout           *)
(***************************************************************************)
InitExec ==
    /\ MgrIdle
    /\ PathIdle
    /\ ExecIdle
    /\ DetectIdle
    /\ AsyncIdle
    /\ max_output_size \in OutputCaps

\* a caller invokes execute() with any arguments
Execute == pc = "idle" /\ \E c \in ExecCalls : ExecuteCall(c)

\* the subprocess exits with any code and output
SubprocessExit ==
    pc = "running" /\ \E rc \in ExitCodes, out \in Streams, err \in Streams :
                         ProcessExits(rc, out, err)

\* the subprocess is killed at the timeout with any partial output
SubprocessTimeout ==
    pc = "running" /\ \E ob \in PartialStreams, eb \in PartialStreams :
                         ProcessTimesOut(ob, eb)

NextExec ==
    \/ Execute
    \/ SubprocessExit
    \/ SubprocessTimeout
    \/ ProcessWritesUndecodable
    \/ ExecuteReturn

SpecExec == InitExec /\ [][NextExec]_vars

(***************************************************************************)
(* Specification of the detector: every skill directory and max_depth of   *)
(* the bounded sets, scanned once                                          *)
(***************************************************************************)
InitDetect ==
    /\ MgrIdle
    /\ PathIdle
    /\ ExecIdle
    /\ max_output_size = 64
    /\ AsyncIdle
    /\ dcall \in [tree : SkillTrees, max_depth : MaxDepths]
    /\ dres = NotDetected

NextDetect == DetectCall

SpecDetect == InitDetect /\ [][NextDetect]_vars


(***************************************************************************)
(* Specification of the construction: SkillManager(...) with any arguments *)
(***************************************************************************)
InitSources ==
    /\ PathIdle
    /\ ExecIdle
    /\ DetectIdle
    /\ AsyncIdle
    /\ max_output_size = 64
    /\ config \in SourceConfigs
    /\ fs = [d \in Dirs |-> <<>>]
    /\ sources = <<>>
    /\ skills_dir = None
    /\ init_mode = UNINITIALIZED
    /\ skills = <<>>
    /\ lastCall = Call("__init__", None, UNINITIALIZED, "running")
    /\ warnings = <<>>
    /\ scanned = {}
    /\ parsed = <<>>

\* SkillManager.__init__
Construct ==
    /\ lastCall.out = "running"
    /\ sources' = BuildSources(config)
    /\ skills_dir' = SkillsDirOf(config)
    /\ lastCall' = Call("__init__", None, UNINITIALIZED, "ok")
    /\ UNCHANGED <<config, fs, init_mode, skills, warnings, scanned, parsed>>
    /\ UNCHANGED <<pathVars, execVars, detVars, asyVars>>

NextSources == Construct

SpecSources == InitSources /\ [][NextSources]_vars


(***************************************************************************)
(* Specification of concurrent discovery: adiscover() called twice on one  *)
(* manager in one event loop, over a filesystem that does not change       *)
(***************************************************************************)
InitAsync ==
    /\ PathIdle
    /\ ExecIdle
    /\ DetectIdle
    /\ AsyncIdle
    /\ max_output_size = 64
    /\ config \in Configs
    /\ fs \in FileSystems
    /\ sources = BuildSources(config)
    /\ skills_dir = SkillsDirOf(config)
    /\ init_mode = UNINITIALIZED
    /\ skills = <<>>
    /\ lastCall = Call("__init__", None, UNINITIALIZED, "ok")
    /\ warnings = <<>>
    /\ scanned = {}
    /\ parsed = <<>>

NextAsync ==
    \/ Discover /\ UNCHANGED <<pathVars, execVars, detVars, asyVars>>
    \/ \E t \in Tasks : ADiscoverBegin(t)
    \/ \E t \in Tasks : ADiscoverResume(t)

SpecAsync == InitAsync /\ [][NextAsync]_vars

(***************************************************************************)
(* Properties                                                              *)
(***************************************************************************)
DiscoveryOps == {"discover", "adiscover"}

\* C1: once init_mode has left UNINITIALIZED, no call of the manager (nor a
\* change on disk) ever changes it again.
C1_InitModeFixed == [][init_mode # UNINITIALIZED => init_mode' = init_mode]_vars

\* a sync-initialised manager on which adiscover() was attempted
C1_Witness ==
    init_mode = SYNC /\ lastCall.op = "adiscover" /\ lastCall.pre = SYNC

\* C2: discover() on an ASYNC manager and adiscover() on a SYNC manager raise
\* AsyncStateError; the same-mode discovery call completes and keeps the mode.
C2_CrossModeDiscoveryRejected ==
    /\ (lastCall.op = "discover" /\ lastCall.pre = ASYNC) => lastCall.out = "AsyncStateError"
    /\ (lastCall.op = "adiscover" /\ lastCall.pre = SYNC) => lastCall.out = "AsyncStateError"
    /\ (lastCall.op = "discover" /\ lastCall.pre = SYNC)
          => (lastCall.out = "ok" /\ init_mode = SYNC)
    /\ (lastCall.op = "adiscover" /\ lastCall.pre = ASYNC)
          => (lastCall.out = "ok" /\ init_mode = ASYNC)

\* adiscover() was rejected on a manager that discover() had initialised
C2_Witness == lastCall = Call("adiscover", None, SYNC, "AsyncStateError")

\* C3: ainvoke_skill() on a SYNC manager and invoke_skill() on an ASYNC
\* manager are both rejected with the state error, before any lookup.
C3_InvokeValidatesModeBothWays ==
    /\ (lastCall.op = "ainvoke_skill" /\ lastCall.pre = SYNC)
          => lastCall.out = "AsyncStateError"
    /\ (lastCall.op = "invoke_skill" /\ lastCall.pre = ASYNC)
          => lastCall.out = "AsyncStateError"

\* the manifests of directory d that parse to skill n, in scan order
ManifestsNamed(f, d, n) == {i \in 1..Len(f[d]) : f[d][i] = n}
CountIn(seq, x) == Cardinality({i \in 1..Len(seq) : seq[i] = x})
SourceDirs == {sources[i].directory : i \in 1..Len(sources)}

RECURSIVE TotalNamed(_, _, _)
TotalNamed(f, ds, n) ==
    IF ds = {} THEN 0
    ELSE LET d == CHOOSE x \in ds : TRUE
         IN Cardinality(ManifestsNamed(f, d, n)) + TotalNamed(f, ds \ {d}, n)

\* C4: after a discovery pass, a skill name found in a higher-priority source
\* S1 and in a lower-priority source S2 is registered with the metadata of
\* S1's manifest (S1 being the highest-priority source that has it) and one
\* duplicate warning is logged for each discarded manifest of that name.
C4_HigherPriorityWins ==
    [][(lastCall'.op \in DiscoveryOps /\ lastCall'.out = "ok" /\ fs' = fs) =>
        \A i, j \in 1..Len(sources), n \in SkillNames :
            ( /\ sources[i].priority > sources[j].priority
              /\ ManifestsNamed(fs, sources[i].directory, n) # {}
              /\ ManifestsNamed(fs, sources[j].directory, n) # {}
              /\ \A k \in 1..(i - 1) : ManifestsNamed(fs, sources[k].directory, n) = {} )
            => /\ HasSkill(skills', n)
               /\ Lookup(skills', n).skill_path[1] = sources[i].directory
               /\ CountIn(warnings', n) = TotalNamed(fs, SourceDirs, n) - 1
      ]_vars

\* position in parsed of the manifests of directory d
ParsedFrom(d) == {k \in 1..Len(parsed) : parsed[k][1] = d}

\* C5: a discovery pass scans the directory of every source of
\* manager.sources, and hands the manifests of a higher-priority source to
\* the parser before those of every lower-priority source.
C5_AllSourcesInPriorityOrder ==
    (lastCall.op \in DiscoveryOps /\ lastCall.out = "ok") =>
        /\ scanned = SourceDirs
        /\ \A i, j \in 1..Len(sources) :
              sources[i].priority > sources[j].priority =>
                 \A a \in ParsedFrom(sources[i].directory),
                    b \in ParsedFrom(sources[j].directory) : a < b

Restricted(tools) == tools # <<>> /\ "Bash" \notin Range(tools)

\* C6: a script of a skill whose allowed_tools is non-empty and lacks "Bash"
\* is never spawned and execute() raises ToolRestrictionError for it; with
\* an empty list or one that has "Bash" execution reaches the interpreter
\* stage.
C6_ToolRestrictionEnforced ==
    LET v == ValidateScriptPath(ecall.script_path, ecall.skill_base_dir)
        reachesPolicy == v.err = None /\ CheckPermissions(ecall.os_name, ecall.mode) = None
    IN (pc # "idle" /\ reachesPolicy) =>
          IF Restricted(ecall.allowed_tools)
          THEN pc = "done" /\ eres.raised = "ToolRestrictionError" /\ spawned = 0
          ELSE eres.raised # "ToolRestrictionError"

StrictlyUnder(path, base) ==
    Len(path) > Len(base) /\ SubSeq(path, 1, Len(base)) = base

\* the absolute candidate the validation examines
Candidate(c) ==
    IF c.script_path.abs THEN c.script_path.parts
    ELSE RealPath(c.skill_base_dir) \o c.script_path.parts

\* C7: a path returned by _validate_script_path has the canonical base
\* directory as a proper ancestor (component by component: not the base
\* itself, not under a sibling whose name extends the base's name, not
\* elsewhere), and a candidate whose canonical path is not such a descendant
\* is answered with PathSecurityError.
C7_ValidatedPathStrictlyInsideBase ==
    LET base == RealPath(vcall.skill_base_dir)
    IN /\ vres.err = None => StrictlyUnder(vres.path, base)
       /\ (vres # NotCalled /\ ~StrictlyUnder(RealPath(AbsPath(Candidate(vcall))), base))
             => vres.err = "PathSecurityError"

\* a candidate with '..' that passes through the link /t was accepted
C7_Witness ==
    /\ vres.err = None
    /\ DotDot \in Range(vcall.script_path.parts)
    /\ nT \in Range(vcall.script_path.parts)
    /\ vcall.skill_base_dir = AbsPath(<<nT>>)

\* the symbolic link a candidate names: where the kernel finds it, or where
\* the lexically normalised candidate lies
LinkNamed(sp) ==
    IF IsSymlink(sp)
    THEN Append(KernelWalk(<<>>, Parent(sp), MaxFollow), sp[Len(sp)])
    ELSE IF IsLink(NormPath(<<>>, sp)) THEN NormPath(<<>>, sp)
    ELSE Fail

\* C8: for a candidate naming a symlink that lies inside the base directory:
\* when the link's fully resolved target is outside the base, validation
\* raises PathSecurityError; when it is a regular file inside the base,
\* validation returns that target.
C8_SymlinkContainment ==
    LET base == RealPath(vcall.skill_base_dir)
        link == LinkNamed(Candidate(vcall))
        target == KernelWalk(<<>>, link, MaxFollow)
    IN (vres # NotCalled /\ link # Fail /\ StrictlyUnder(link, base) /\ target # Fail) =>
          /\ ~StrictlyUnder(target, base) => vres.err = "PathSecurityError"
          /\ (StrictlyUnder(target, base) /\ DiskTree[target].kind = "file")
                => vres = Returned(target)

\* C9: when the subprocess ran past the timeout, the returned result has
\* exit_code 124, "Timeout" in its stderr and a true timeout property.
C9_TimeoutReported ==
    (pc = "done" /\ how = "timeout" /\ eres.raised = None) =>
        /\ eres.result.exit_code = 124
        /\ Contains(eres.result.stderr, TimeoutWord)
        /\ TimeoutProp(eres.result)

\* C10: when the subprocess completed before the timeout, the returned
\* result's timeout property is false, whatever it exited with or wrote.
C10_NoTimeoutWhenCompleted ==
    (pc = "done" /\ how = "exit" /\ eres.raised = None) => ~TimeoutProp(eres.result)

IsPrefix(p, s) == Len(p) <= Len(s) /\ SubSeq(s, 1, Len(p)) = p

\* what the claim says of one stream: orig as _execute_subprocess returned it,
\* ret and flag as the result carries them
TruncatedAsClaimed(orig, ret, flag, cap, marker) ==
    IF Len(Encode(orig)) > cap
    THEN /\ flag
         /\ \E k \in 0..Len(orig) :
               /\ Len(Encode(SubSeq(orig, 1, k))) <= cap
               /\ ret = SubSeq(orig, 1, k) \o marker
    ELSE ~flag /\ ret = orig

\* C11: in a returned result each stream is truncated on its own: a stream
\* whose UTF-8 size exceeds max_output_size is flagged and is a prefix of the
\* original of at most max_output_size bytes followed by its marker; a stream
\* at or below max_output_size is unflagged and unmodified, whatever happened
\* to the other stream.
C11_StreamsTruncatedIndependently ==
    (pc = "done" /\ how # None /\ eres.raised = None) =>
        /\ TruncatedAsClaimed(ran.stdout, eres.result.stdout,
                              eres.result.stdout_truncated, max_output_size, StdoutMarker)
        /\ TruncatedAsClaimed(ran.stderr, eres.result.stderr,
                              eres.result.stderr_truncated, max_output_size, StderrMarker)

\* stdout was cut in the middle of a two-byte character, which is dropped,
\* while stderr, below the cap, was left alone
C11_Witness ==
    /\ pc = "done" /\ how = "exit" /\ eres.raised = None
    /\ max_output_size = 2
    /\ ran.stdout = <<"x", "e'", "x">>
    /\ eres.result.stdout = <<"x">> \o StdoutMarker
    /\ eres.result.stdout_truncated
    /\ ran.stderr = <<"x">>
    /\ eres.result.stderr = <<"x">>
    /\ ~eres.result.stderr_truncated

\* the error the claimed pipeline raises for arguments: a serialization
\* failure, then the size cap
ClaimedArgumentError(a) ==
    IF a.dumps # "ok" \/ ~a.encodable THEN "ArgumentSerializationError"
    ELSE IF SerializedSize(a) > ARGUMENT_SIZE_CAP THEN "ArgumentSizeError"
    ELSE None

\* the errors of the pre-spawn stages that fail for call c
FailingStages(c) ==
    LET v == ValidateScriptPath(c.script_path, c.skill_base_dir)
    IN IF v.err # None THEN {v.err}
       ELSE {CheckPermissions(c.os_name, c.mode),
             IF Restricted(c.allowed_tools) THEN "ToolRestrictionError" ELSE None,
             ResolveInterpreter(v.path).err,
             ClaimedArgumentError(c.arguments)} \ {None}

\* C12: an execute() invocation in which a pre-spawn stage fails (path,
\* symlink, missing script, setuid/setgid, tool policy, interpreter, argument
\* serialization or size) raises the error of a failing stage and spawns no
\* subprocess.
C12_PreSpawnFailureNeverSpawns ==
    (pc # "idle" /\ FailingStages(ecall) # {}) =>
        /\ pc = "done"
        /\ eres.raised \in FailingStages(ecall)
        /\ spawned = 0

\* C13: once execute() has spawned the subprocess it returns a result and
\* raises nothing; exit code and signal are fields of that result.
C13_SpawnedAlwaysReturnsResult ==
    (pc = "done" /\ spawned > 0) =>
        /\ eres.raised = None
        /\ eres.result.exit_code = ran.exit_code
        /\ eres.result.signal = ran.signal_name

\* C14: an execute() invocation that spawned the subprocess has emitted
\* exactly one AUDIT entry when it returns or raises, and an invocation that
\* failed before the spawn has emitted none.
C14_ExactlyOneAuditEntry ==
    pc = "done" => audit = (IF spawned > 0 THEN 1 ELSE 0)

\* C18: for a validated script, on POSIX a mode with setuid or setgid makes
\* execute() raise ScriptPermissionError without spawning; a mode with
\* neither bit, or any mode on a non-POSIX platform, never does.
C18_SetuidSetgidRejected ==
    LET v == ValidateScriptPath(ecall.script_path, ecall.skill_base_dir)
    IN (pc # "idle" /\ v.err = None) =>
          IF ecall.os_name # "nt" /\ ecall.mode \cap {"S_ISUID", "S_ISGID"} # {}
          THEN pc = "done" /\ eres.raised = "ScriptPermissionError" /\ spawned = 0
          ELSE eres.raised # "ScriptPermissionError"

\* a setgid-only script was rejected on POSIX
C18_Witness ==
    /\ pc = "done"
    /\ ecall.os_name = "posix"
    /\ ecall.mode = {"S_ISGID"}
    /\ eres.raised = "ScriptPermissionError"

\* C19: when execute() reaches the serialization stage, arguments whose
\* compact JSON serialization exceeds ARGUMENT_SIZE_CAP bytes raise
\* ArgumentSizeError before any spawn, arguments at or below the cap pass the
\* stage, and arguments that cannot be serialized raise
\* ArgumentSerializationError.
C19_ArgumentSizeAndSerialization ==
    LET v == ValidateScriptPath(ecall.script_path, ecall.skill_base_dir)
        a == ecall.arguments
        serializable == a.dumps = "ok" /\ a.encodable
    IN (/\ pc # "idle"
        /\ v.err = None
        /\ CheckPermissions(ecall.os_name, ecall.mode) = None
        /\ ResolveInterpreter(v.path).err = None) =>
          /\ (serializable /\ a.compact > ARGUMENT_SIZE_CAP)
                => (pc = "done" /\ eres.raised = "ArgumentSizeError" /\ spawned = 0)
          /\ (serializable /\ a.compact <= ARGUMENT_SIZE_CAP)
                => eres.raised \notin {"ArgumentSizeError", "ArgumentSerializationError"}
          /\ ~serializable
                => (pc = "done" /\ eres.raised = "ArgumentSerializationError" /\ spawned = 0)

\* the source paths the caller supplied
ExplicitPaths(cfg) ==
    ({cfg.project, cfg.anthropic} \ {None}) \cup Range(cfg.plugins) \cup Range(cfg.additional)

\* C15: a SkillManager constructed with an explicitly supplied source path
\* that does not exist (or is no directory) fails at construction with
\* ConfigurationError.
C15_ExplicitMissingPathIsFatal ==
    (lastCall.op = "__init__" /\ \E d \in ExplicitPaths(config) : ~Exists(d))
        => lastCall.out = "ConfigurationError"

\* the manifests the pass finds: those of the scanned directory, in scan order
FoundInPass(f, d) == IF Exists(d) THEN f[d] ELSE <<>>

\* C16: a discovery pass never raises on a manifest that fails to parse; the
\* registry it leaves holds exactly the parseable skill names found in the
\* pass, each with the metadata of its first manifest in scan order,
\* wherever the unparseable manifests stand.
C16_BadManifestSkipped ==
    [][(lastCall'.op \in DiscoveryOps /\ lastCall'.pre = init_mode /\ fs' = fs
        /\ lastCall'.out # "AsyncStateError") =>
        LET found == FoundInPass(fs, skills_dir)
        IN /\ lastCall'.out = "ok"
           /\ \A k \in 1..Len(skills') : skills'[k].name \in SkillNames
           /\ \A n \in SkillNames :
                 IF \E i \in 1..Len(found) : found[i] = n
                 THEN /\ HasSkill(skills', n)
                      /\ Lookup(skills', n).skill_path =
                            <<skills_dir,
                              CHOOSE i \in 1..Len(found) :
                                 found[i] = n /\ \A j \in 1..(i - 1) : found[j] # n>>
                 ELSE ~HasSkill(skills', n)
      ]_vars

\* a pass met an unparseable manifest first and registered the skill after it
C16_Witness ==
    /\ lastCall.op = "adiscover" /\ lastCall.out = "ok"
    /\ Exists(skills_dir)
    /\ fs[skills_dir] = <<BAD, "X">>
    /\ parsed = <<<<skills_dir, 1>>, <<skills_dir, 2>>>>
    /\ HasSkill(skills, "X")

\* the names a not-found message lists after its fixed text
ListedNames(msg) == SubSeq(msg, 4, Len(msg))

\* C20: get_skill(name) succeeds when name is a key of the registry and
\* otherwise raises SkillNotFoundError with a message that lists the
\* registry's names, each once, or "none" when the registry is empty;
\* load_skill and invoke_skill raise that same error for an unknown name.
C20_NotFoundListsRegistry ==
    lastCall.op \in {"get_skill", "load_skill", "invoke_skill"} =>
        IF \E k \in 1..Len(skills) : skills[k].name = lastCall.arg
        THEN /\ lastCall.out # "SkillNotFoundError"
             /\ lastCall.op \in {"get_skill", "load_skill"} => lastCall.out = "ok"
        ELSE /\ lastCall.out = "SkillNotFoundError"
             /\ lastCall.msg[2] = lastCall.arg
             /\ IF skills = <<>>
                THEN ListedNames(lastCall.msg) = <<"none">>
                ELSE /\ Len(ListedNames(lastCall.msg)) = 2 * Len(skills) - 1
                     /\ \A k \in 1..Len(skills) :
                           ListedNames(lastCall.msg)[2 * k - 1] = skills[k].name
                     /\ \A k \in 1..(Len(skills) - 1) :
                           ListedNames(lastCall.msg)[2 * k] = ", "

\* load_skill("Y") failed on a registry holding X alone
C20_Witness ==
    /\ lastCall.op = "load_skill" /\ lastCall.arg = "Y"
    /\ lastCall.out = "SkillNotFoundError"
    /\ Len(skills) = 1 /\ skills[1].name = "X"
    /\ ListedNames(lastCall.msg) = <<"X">>

\* a qualifying script lies at depth D under scripts/ (depth 0: the direct
\* children of scripts/): a regular, visible script file reached through
\* plain directories only
QualifyingAt(levels, D) ==
    /\ D + 1 <= Len(levels)
    /\ nRun \in levels[D + 1].files
    /\ \A j \in 1..D : levels[j].sub = Item(nSub, "dir", FALSE)

FoundAt(levels, D, found) == PathAt(levels, D + 1, nRun) \in Range(found)

\* C17 as stated: a qualifying script at depth D is found iff D <= max_depth.
C17_FoundIffDepthAtMostMax ==
    dres # NotDetected =>
        \A D \in 0..MaxNest :
            QualifyingAt(dcall.tree.levels, D) =>
                (FoundAt(dcall.tree.levels, D, dres) <=> D <= dcall.max_depth)

\* C17, amended: with depth 0 the direct children of scripts/,
\* detect_scripts finds a qualifying script at depth D iff D < max_depth: a
\* script at depth max_depth - 1 is found and one at depth max_depth is not.
C17_FoundIffDepthBelowMax ==
    dres # NotDetected =>
        \A D \in 0..MaxNest :
            QualifyingAt(dcall.tree.levels, D) =>
                (FoundAt(dcall.tree.levels, D, dres) <=> D < dcall.max_depth)

\* with max_depth 2, scripts lie at depths 1 and 2: the first was found, the
\* second was not
C17_Witness ==
    /\ dres # NotDetected
    /\ dcall.max_depth = 2
    /\ QualifyingAt(dcall.tree.levels, 1)
    /\ QualifyingAt(dcall.tree.levels, 2)
    /\ FoundAt(dcall.tree.levels, 1, dres)
    /\ ~FoundAt(dcall.tree.levels, 2, dres)

\* the name the platform gives signal n, as the claim words it
ClaimedSignalName(n) ==
    IF n \in DOMAIN SignalNames THEN SignalNames[n]
    ELSE "UNKNOWN_SIGNAL_" \o ToString(n)

\* C25: a returned result carries signal and signal_number exactly when the
\* subprocess completed with a negative return code; then signal_number is
\* the negated exit code and signal is the platform's name for that number
\* or "UNKNOWN_SIGNAL_<n>".  For a non-negative return code and for a timeout
\* both fields are absent and signaled is false.
C25_SignalFieldsIffNegativeReturnCode ==
    (pc = "done" /\ how # None /\ eres.raised = None) =>
        \E r \in {eres.result} :
           IF how = "exit" /\ r.exit_code < 0
           THEN /\ r.signal # None
                /\ r.signal_number = 0 - r.exit_code
                /\ r.signal = ClaimedSignalName(0 - r.exit_code)
                /\ Signaled(r)
           ELSE /\ r.signal = None
                /\ r.signal_number = None
                /\ ~Signaled(r)

\* the subprocess was ended by a signal the platform has no name for
C25_Witness ==
    /\ pc = "done" /\ how = "exit" /\ eres.raised = None
    /\ eres.result.exit_code = -99
    /\ eres.result.signal = "UNKNOWN_SIGNAL_99"
    /\ eres.result.signal_number = 99
    /\ Signaled(eres.result)

\* C30: of success, timeout and signaled at most one is true on a returned
\* result; success means exit code 0 and no signal, timeout means exit code
\* 124 and no signal, signaled means a negative exit code.
C30_OutcomeFlagsExclusive ==
    (pc = "done" /\ how # None /\ eres.raised = None) =>
        \E r \in {eres.result} :
           /\ ~(Success(r) /\ TimeoutProp(r))
           /\ ~(Success(r) /\ Signaled(r))
           /\ ~(TimeoutProp(r) /\ Signaled(r))
           /\ Success(r) =>
                 r.exit_code = 0 /\ r.signal = None /\ r.signal_number = None
           /\ TimeoutProp(r) =>
                 r.exit_code = 124 /\ r.signal = None /\ r.signal_number = None
           /\ Signaled(r) => r.exit_code < 0

\* a script killed by SIGKILL after writing "Timeout" to its stderr: signaled
\* only
C30_Witness ==
    /\ pc = "done" /\ how = "exit" /\ eres.raised = None
    /\ eres.result.exit_code = -9
    /\ Contains(eres.result.stderr, TimeoutWord)
    /\ Signaled(eres.result)
    /\ ~Success(eres.result)
    /\ ~TimeoutProp(eres.result)

\* the error of the earliest failing stage in the order validate path,
\* permissions, tool-use policy, interpreter, serialize
EarliestFailure(c) ==
    LET v == ValidateScriptPath(c.script_path, c.skill_base_dir)
    IN IF v.err # None THEN v.err
       ELSE IF CheckPermissions(c.os_name, c.mode) # None
            THEN CheckPermissions(c.os_name, c.mode)
       ELSE IF Restricted(c.allowed_tools) THEN "ToolRestrictionError"
       ELSE IF ResolveInterpreter(v.path).err # None THEN ResolveInterpreter(v.path).err
       ELSE SerializeArguments(c.arguments)

\* C23: execute() ends at the first failing stage in the order validate
\* path, check permissions, enforce tool-use policy, resolve interpreter,
\* serialize arguments: no later stage runs, nothing is spawned, and the
\* error raised is that of the earliest failing stage.
C23_EarliestFailingStageRaises ==
    (pc # "idle" /\ EarliestFailure(ecall) # None) =>
        /\ pc = "done"
        /\ eres.raised = EarliestFailure(ecall)
        /\ spawned = 0

\* the candidate names a symlink whose chain does not end at an existing
\* file or directory: a broken link or a loop
Uncanonical(c) ==
    /\ LinkNamed(Candidate(c)) # Fail
    /\ KernelWalk(<<>>, LinkNamed(Candidate(c)), MaxFollow) = Fail

\* C24: a script path that cannot be canonicalized (a broken symlink or a
\* symlink loop) is answered with PathSecurityError; FileNotFoundError is
\* raised only for a path that canonicalizes inside the base directory and is
\* missing or not a regular file.
C24_UncanonicalPathIsSecurityError ==
    (vres # NotCalled) =>
        /\ Uncanonical(vcall) => vres.err = "PathSecurityError"
        /\ vres.err = "FileNotFoundError" =>
              /\ ~Uncanonical(vcall)
              /\ StrictlyUnder(RealPath(AbsPath(Candidate(vcall))),
                               RealPath(vcall.skill_base_dir))
              /\ ~IsFile(RealPath(AbsPath(Candidate(vcall))))

\* the names of the entries that are symbolic links
SymlinkNames == {i.name : i \in {x \in FileItems \cup SubItems : x.symlink}}

\* path p, relative to the skill directory, is a symlink or lies beneath one
ThroughSymlink(tree, p) ==
    \/ \E j \in 1..Len(p) : p[j] \in SymlinkNames
    \/ Len(p) > 1 /\ p[1] = nScripts /\ tree.scripts_link

\* C26: detect_scripts never reports a symlink and never descends through
\* one: no reported path is a symlink or lies beneath a symlinked directory,
\* at any depth of scripts/ or in the skill root, and no file is reported
\* twice.
C26_SymlinksNeverReported ==
    dres # NotDetected =>
        /\ \A i \in 1..Len(dres) : ~ThroughSymlink(dcall.tree, dres[i])
        /\ \A i, j \in 1..Len(dres) : dres[i] = dres[j] => i = j

\* the sources discover_skills() and adiscover_skills() are compared on
ProbedSources ==
    [source_type : {"project", "plugin"},
     directory : Dirs \cup {Gone},
     plugin_manifest :
        {[present |-> FALSE, skills |-> <<>>]}
        \cup {[present |-> TRUE, skills |-> s] : s \in SeqsUpTo(Dirs \cup {Gone}, 2)}]

\* C21: over the same filesystem the asynchronous discovery path returns the
\* manifest paths the synchronous one returns, in the same order
\* (ascan_directory against scan_directory, adiscover_skills against
\* discover_skills), and adiscover() on a fresh manager leaves the registry
\* discover() would have produced.  The scans are compared on the initial
\* filesystem, which is any filesystem of the bounded set; the registries on
\* every adiscover() step of a fresh manager.
C21_AsyncDiscoveryMatchesSync ==
    /\ \A d \in Dirs \cup {Gone} : AScanDirectory(fs, d) = ScanDirectory(fs, d)
    /\ \A s \in ProbedSources : ADiscoverSkills(fs, s) = DiscoverSkills(fs, s)
    /\ [][(init_mode = UNINITIALIZED /\ init_mode' = ASYNC) =>
             skills' = RegisterAll(fs, EmptyPass, ScanDirectory(fs, skills_dir)).reg]_vars

\* adiscover() on a fresh manager registered two skills, in the order of the
\* scan
C21_Witness ==
    /\ lastCall = Call("adiscover", None, UNINITIALIZED, "ok")
    /\ init_mode = ASYNC
    /\ Len(skills) = 2
    /\ skills[1].skill_path = <<skills_dir, 1>>
    /\ skills[2].skill_path = <<skills_dir, 2>>

\* C22: every discovery pass starts from an empty registry: after it, each
\* registered skill comes from a manifest the pass itself found and parsed,
\* a skill whose manifest has disappeared or no longer parses is absent, and
\* a pass that finds no manifest leaves the registry empty.
C22_PassStartsFromEmptyRegistry ==
    [][(lastCall'.op \in DiscoveryOps /\ lastCall'.pre = init_mode /\ fs' = fs
        /\ lastCall'.out = "ok") =>
        LET files == ScanDirectory(fs, skills_dir)
        IN /\ \A k \in 1..Len(skills') :
                 /\ skills'[k].skill_path \in Range(files)
                 /\ fs[skills'[k].skill_path[1]][skills'[k].skill_path[2]]
                       = skills'[k].name
           /\ \A n \in SkillNames :
                 (\A i \in 1..Len(files) : fs[files[i][1]][files[i][2]] # n)
                    => ~HasSkill(skills', n)
           /\ files = <<>> => skills' = <<>>
      ]_vars

\* a repeated discover() over a skills directory that holds no manifest any
\* more: the registry is empty
C22_Witness ==
    /\ lastCall = Call("discover", None, SYNC, "ok")
    /\ Exists(skills_dir)
    /\ fs[skills_dir] = <<>>
    /\ parsed = <<>>
    /\ skills = <<>>

\* C28: a discovery call rejected with AsyncStateError leaves the manager as
\* it was: the registry and init_mode are those before the call.
C28_RejectedDiscoveryChangesNothing ==
    [][(lastCall'.op \in DiscoveryOps /\ lastCall'.out = "AsyncStateError"
        /\ lastCall'.pre = init_mode /\ fs' = fs) =>
          /\ skills' = skills
          /\ init_mode' = init_mode
          /\ sources' = sources
      ]_vars

\* discover() was rejected on a manager whose adiscover() had registered two
\* skills, and both are still registered
C28_Witness ==
    /\ lastCall = Call("discover", None, ASYNC, "AsyncStateError")
    /\ init_mode = ASYNC
    /\ HasSkill(skills, "X")
    /\ HasSkill(skills, "Y")

IsPluginSource(s) == s.source_type = "plugin"
IsCustomSource(s) == s.source_type = "custom"
DirectoryOf(ss) == [i \in 1..Len(ss) |-> ss[i].directory]

\* project before anthropic before plugin before custom
TypeRank(t) ==
    CASE t = "project" -> 1 [] t = "anthropic" -> 2 [] t = "plugin" -> 3
      [] t = "custom" -> 4

\* C27: manager.sources is ordered by priority descending, ties in
\* construction order, with Project 100, Anthropic 50, Plugin 10 and 5 - i for
\* the i-th additional search path: every project source precedes every
\* anthropic source, which precedes every plugin source (in the order
\* given), which precedes every custom source (in the order given).
C27_SourcesOrderedByPriority ==
    lastCall.out = "ok" =>
        /\ \A i, j \in 1..Len(sources) :
              i < j => /\ sources[i].priority >= sources[j].priority
                       /\ TypeRank(sources[i].source_type)
                             <= TypeRank(sources[j].source_type)
        /\ \A i \in 1..Len(sources) :
              \/ sources[i] = Source("project", config.project, 100)
              \/ sources[i] = Source("anthropic", config.anthropic, 50)
              \/ sources[i].source_type = "plugin" /\ sources[i].priority = 10
              \/ \E k \in 1..Len(config.additional) :
                    sources[i] = Source("custom", config.additional[k], 5 - (k - 1))
        /\ DirectoryOf(SelectSeq(sources, IsPluginSource))
              = SelectSeq(config.plugins, Exists)
        /\ DirectoryOf(SelectSeq(sources, IsCustomSource))
              = SelectSeq(config.additional, Exists)
        /\ (config.project # None /\ Exists(config.project))
              <=> \E i \in 1..Len(sources) : sources[i].source_type = "project"
        /\ (config.anthropic # None /\ Exists(config.anthropic))
              <=> \E i \in 1..Len(sources) : sources[i].source_type = "anthropic"

\* all four kinds of source, two plugin directories with the same priority,
\* and an additional path after one that does not exist
C27_Witness ==
    /\ lastCall.out = "ok"
    /\ config.plugins = <<"anth", "proj">>
    /\ config.additional = <<Gone, "dflt">>
    /\ sources = <<Source("project", "proj", 100), Source("anthropic", "anth", 50),
                   Source("plugin", "anth", 10), Source("plugin", "proj", 10),
                   Source("custom", "dflt", 4)>>

\* C29: two adiscover() calls on one manager that overlap (the second starts
\* while the first awaits its scan), over an unchanged filesystem, leave the
\* registry a single adiscover() call produces and init_mode ASYNC, and log
\* no duplicate-name warning for a skill that exists only once on disk.
C29_OverlappingADiscover ==
    (\A t \in Tasks : tasks[t].at = "done" /\ tasks[t].overlapped) =>
        /\ skills = RegisterAll(fs, EmptyPass, AScanDirectory(fs, skills_dir)).reg
        /\ init_mode = ASYNC
        /\ \A n \in SkillNames :
              TotalNamed(fs, Dirs, n) = 1 => n \notin Range(warnings)

====
